---- MODULE Spec2Model ----
(***************************************************************************)
(* SecureFS (HueCodes/Rust-Lock): the chunked streaming AEAD engine        *)
(* (src/streaming.rs), the storage facade (src/storagefile_ops.rs) and the *)
(* metadata sidecar (src/metadata.rs).                                     *)
(*                                                                         *)
(* Bytes are the integers 0..255, byte strings are sequences of bytes, a   *)
(* logical name is the sequence of its ASCII codes.  The version byte, the *)
(* 24-byte nonce, the 4-byte big-endian length and the 16-byte tag keep    *)
(* their widths; only the chunk size is scaled down (MaxChunk).            *)
(***************************************************************************)
EXTENDS Integers, Sequences, FiniteSets, TLC

(* ------------------------------ bounds -------------------------------- *)
\* the chunk size of the model, in bytes (64 KiB in the program)
MaxChunk == 2

\* commands of the command line run one after the other
MaxCli == 2

\* calls made through facades that are replaced between calls
MaxReopen == 2

\* chunks a stream may have for its chunks to be reordered
MaxReorder == 3

\* calls made on one facade
MaxCalls == 3
\* calls made on a facade that several callers share
MaxShared == 2

(* ------------------------- program constants -------------------------- *)
CHUNK_SIZE == MaxChunk
VERSION_V2_STREAM == 2
NONCE_LEN == 24
LEN_FIELD == 4
TAG_LEN == 16

(* ------------------------------ bytes --------------------------------- *)
Min(a, b) == IF a < b THEN a ELSE b

Take(s, n) == SubSeq(s, 1, Min(n, Len(s)))

Drop(s, n) == SubSeq(s, n + 1, Len(s))

RECURSIVE SumFrom(_, _)
SumFrom(s, i) == IF i > Len(s) THEN 0 ELSE (s[i] + SumFrom(s, i + 1)) % 256

SeqSum(s) == SumFrom(s, 1)

\* position-weighted checksum: tells permutations of the same bytes apart
RECURSIVE WSumFrom(_, _)
WSumFrom(s, i) == IF i > Len(s) THEN 0 ELSE (i * s[i] + WSumFrom(s, i + 1)) % 251

WSum(s) == WSumFrom(s, 1)

ByteAt(s, i) == IF i <= Len(s) THEN s[i] ELSE 0

\* (mutant) the length written least significant byte first
U32LE(n) ==
    << n % 256, (n \div 256) % 256, (n \div 65536) % 256, (n \div 16777216) % 256 >>

\* tokio write_u32: big-endian
U32BE(n) ==
    << (n \div 16777216) % 256, (n \div 65536) % 256, (n \div 256) % 256, n % 256 >>

\* tokio read_u32: big-endian.  A value of 2^24 or more is larger than any
\* stream of the model; it is returned as 2^24 so that the arithmetic stays
\* inside TLC's integers.
ReadU32BE(b) ==
    IF b[1] > 0 THEN 16777216 ELSE b[2] * 65536 + b[3] * 256 + b[4]

(* ------------------- XChaCha20-Poly1305 (ideal AEAD) ------------------ *)
\* Option<&[u8]>: None is <<>>, Some(a) is <<a>>
None == <<>>

Some(a) == <<a>>

\* cipher.encrypt(&nonce, plaintext) converts the plaintext into a Payload
\* whose aad is the empty byte string
AadBytes(aad) == IF aad = None THEN <<>> ELSE aad[1]

KeyStream(nonce, i) == (nonce[1] + 7 * i + 3) % 256

StreamXor(nonce, msg) == [i \in 1..Len(msg) |-> (msg[i] + KeyStream(nonce, i)) % 256]

StreamUnxor(nonce, ct) ==
    [i \in 1..Len(ct) |-> (ct[i] + 256 - KeyStream(nonce, i)) % 256]

\* the 16-byte tag: a function of nonce, associated data and ciphertext that
\* is injective on the values of the model (an ideal MAC)
Mac(nonce, ad, ct) ==
    << Len(ad) % 256, SeqSum(ad), WSum(ad),
       SeqSum(nonce), WSum(nonce),
       Len(ct) % 256, SeqSum(ct), WSum(ct),
       ByteAt(ct, 1), ByteAt(ct, 2), ByteAt(ct, 3), ByteAt(ct, 4),
       ByteAt(ct, 5), ByteAt(ct, 6), ByteAt(ct, 7), ByteAt(ct, 8) >>

\* Aead::encrypt: ciphertext || tag
AeadEncrypt(nonce, aad, msg) ==
    LET ct == StreamXor(nonce, msg)
    IN  ct \o Mac(nonce, AadBytes(aad), ct)

\* Aead::decrypt: Err when the input is shorter than a tag or the tag differs
AeadDecrypt(nonce, aad, sealed) ==
    IF Len(sealed) < TAG_LEN
    THEN [ok |-> FALSE, pt |-> <<>>]
    ELSE LET ct  == SubSeq(sealed, 1, Len(sealed) - TAG_LEN)
             tag == SubSeq(sealed, Len(sealed) - TAG_LEN + 1, Len(sealed))
         IN  IF tag = Mac(nonce, AadBytes(aad), ct)
             THEN [ok |-> TRUE, pt |-> StreamUnxor(nonce, ct)]
             ELSE [ok |-> FALSE, pt |-> <<>>]

\* generate_nonce(&mut OsRng): OsRng is a generator that never repeats a
\* value; its k-th draw is NonceOf(k).  The first draw of a run is one of
\* RngSeeds, so a nonce may begin with any byte, the byte 2 included.
NonceOf(k) == [i \in 1..NONCE_LEN |-> IF i = 1 THEN k % 256 ELSE (k + 5 * i) % 256]

RngSeeds == {1, 2}

\* the first draw in a run of the engine alone
StreamSeeds == {1}

\* the first draw of a facade used by one caller: the nonce of its first
\* buffer write begins with the byte 2, that of its second with the byte 3
FacadeSeeds == {2}

\* (mutant) one nonce per stream: the draw made before the first chunk
ChunkNoncePerStream(k, c) == NonceOf(k - c)

\* encrypt_stream: let nonce = generate_nonce(&mut OsRng) inside the loop;
\* k is the position of the generator, c the chunks this stream has sealed
ChunkNonce(k, c) == NonceOf(k)

(* ----------------------------- FormatFlags ---------------------------- *)
\* flags |= 0x01 when compressed
to_byte(compressed) == IF compressed THEN 1 ELSE 0

\* (mutant) any bit of the byte set means compressed
from_byteAnyBit(byte) == byte # 0

\* compressed: (byte & 0x01) != 0
from_byte(byte) == (byte % 2) # 0

(* ------------------------------ errors -------------------------------- *)
\* what an anyhow::Error returned by the engine holds: an io::Error (with a
\* context string) or an ad-hoc message made by bail!/anyhow!.  No path of
\* streaming.rs or storagefile_ops.rs constructs a SecureFsError.
Ok == [ok |-> TRUE, variant |-> "none", msg |-> "none"]

IoErr(ctx) == [ok |-> FALSE, variant |-> "io::Error", msg |-> ctx]

AdhocErr(text) == [ok |-> FALSE, variant |-> "adhoc", msg |-> text]

(* ======================= src/streaming.rs ============================= *)
\* the plaintexts of the model: lengths 0, 1, one chunk, one chunk + 1,
\* two chunks + 1, with bytes that differ by position
PlainLens == { 0, 1, CHUNK_SIZE, CHUNK_SIZE + 1, 2 * CHUNK_SIZE + 1 }

PlainOf(base, n) == [i \in 1..n |-> (base + 3 * i) % 256]

Plaintexts == { PlainOf(250, n) : n \in PlainLens }

\* aad values: absent, empty, "a", "b"
AadOpts == { None, Some(<<>>), Some(<<97>>), Some(<<98>>) }

EncAadOpts == { None, Some(<<>>), Some(<<97>>) }

\* (mutant) the length field holds the length of the plaintext
SealChunkPlainLen(nonce, aad, msg) ==
    nonce \o U32BE(Len(msg)) \o AeadEncrypt(nonce, aad, msg)

\* one sealed chunk on the wire: nonce || len || ciphertext
SealChunk(nonce, aad, msg) ==
    LET ciphertext == AeadEncrypt(nonce, aad, msg)
    IN  nonce \o U32BE(Len(ciphertext)) \o ciphertext

\* (mutant) the flags byte is written as 0
StreamHeaderNoFlags(compressed) == << VERSION_V2_STREAM, 0 >>

\* the header encrypt_stream writes
StreamHeader(compressed) == << VERSION_V2_STREAM, to_byte(compressed) >>

\* (mutant) the chunk is opened without the caller's aad
OpenChunkNoAad(nonce, aad, ciphertext) == AeadDecrypt(nonce, None, ciphertext)

\* (mutant) the plaintext is used although the tag was not verified
OpenChunkUnverified(nonce, aad, ciphertext) ==
    [ok |-> TRUE,
     pt |-> StreamUnxor(nonce, SubSeq(ciphertext, 1, Len(ciphertext) - TAG_LEN))]

\* decrypt_stream: match aad { Some(a) => decrypt(Payload {msg, aad: a}),
\*                            None => decrypt(nonce, ciphertext) }
OpenChunk(nonce, aad, ciphertext) == AeadDecrypt(nonce, aad, ciphertext)

\* one iteration of the loop of decrypt_stream on the bytes after pos
DecryptIter(data, pos, aad) ==
    LET avail == Len(data) - pos
    IN  IF avail < NONCE_LEN
        THEN \* read_exact: UnexpectedEof, whether 0 or 1..23 bytes were left
             [kind |-> "break", res |-> Ok, pt |-> <<>>, pos |-> Len(data), tail |-> avail,
              alloc |-> 0]
        ELSE
        LET nonce == SubSeq(data, pos + 1, pos + NONCE_LEN)
            p1    == pos + NONCE_LEN
        IN  IF Len(data) - p1 < LEN_FIELD
            THEN [kind |-> "err", res |-> IoErr("reading chunk length"), pt |-> <<>>,
                  pos |-> Len(data), tail |-> 0, alloc |-> 0]
            ELSE
            LET chunk_len == ReadU32BE(SubSeq(data, p1 + 1, p1 + LEN_FIELD))
                p2        == p1 + LEN_FIELD
            IN  IF Len(data) - p2 < chunk_len
                THEN \* vec![0u8; chunk_len] is allocated before the read fails
                     [kind |-> "err", res |-> IoErr("reading encrypted chunk"),
                      pt |-> <<>>, pos |-> Len(data), tail |-> 0, alloc |-> chunk_len]
                ELSE
                LET opened == OpenChunk(nonce, aad, SubSeq(data, p2 + 1, p2 + chunk_len))
                IN  IF ~opened.ok
                    THEN [kind |-> "err", res |-> AdhocErr("decryption failed"),
                          pt |-> <<>>, pos |-> p2 + chunk_len, tail |-> 0,
                          alloc |-> chunk_len]
                    ELSE [kind |-> "chunk", res |-> Ok, pt |-> opened.pt,
                          pos |-> p2 + chunk_len, tail |-> 0, alloc |-> chunk_len]

\* the version check of decrypt_stream
CheckVersion(data) ==
    IF Len(data) < 1 THEN IoErr("reading version byte")
    ELSE IF data[1] # VERSION_V2_STREAM
         THEN AdhocErr("unsupported file format version")
         ELSE Ok

(* ------------- whole-stream form of the engine (facade) --------------- *)
\* encrypt_stream on a source that fills every read: the chunks written for
\* msg, the first nonce being the k-th draw of OsRng
RECURSIVE EncryptChunksFrom(_, _, _, _)
EncryptChunksFrom(msg, k, c, aad) ==
    IF msg = <<>> THEN <<>>
    ELSE SealChunk(ChunkNonce(k, c), aad, Take(msg, CHUNK_SIZE))
         \o EncryptChunksFrom(Drop(msg, CHUNK_SIZE), k + 1, c + 1, aad)

EncryptChunks(msg, k, aad) == EncryptChunksFrom(msg, k, 0, aad)

\* the number of reads that return data
NumChunks(msg) == (Len(msg) + CHUNK_SIZE - 1) \div CHUNK_SIZE

EncryptStream(msg, k, compressed, aad) ==
    StreamHeader(compressed) \o EncryptChunks(msg, k, aad)

\* the loop of decrypt_stream from pos on, out being the sink so far
RECURSIVE DecryptLoop(_, _, _, _)
DecryptLoop(data, pos, aad, out) ==
    LET it == DecryptIter(data, pos, aad)
    IN  IF it.kind = "chunk" THEN DecryptLoop(data, it.pos, aad, out \o it.pt)
        ELSE [res |-> it.res, out |-> out]

\* decrypt_stream: result, sink, byte count and flags.compressed
DecryptStream(data, aad) ==
    IF ~CheckVersion(data).ok
    THEN [res |-> CheckVersion(data), out |-> <<>>, count |-> 0, flag |-> FALSE]
    ELSE IF Len(data) < 2
    THEN [res |-> IoErr("reading flags byte"), out |-> <<>>, count |-> 0, flag |-> FALSE]
    ELSE LET r == DecryptLoop(data, 2, aad, <<>>)
         IN  [res |-> r.res, out |-> r.out,
              count |-> IF r.res.ok THEN Len(r.out) ELSE 0,
              flag |-> r.res.ok /\ from_byte(data[2])]

(* ============== Encryptor (buffer mode, from the spec) ================= *)
\* the compressor: a gzip-like frame of magic bytes, payload and length
Compress(msg) == <<31, 139>> \o msg \o << Len(msg) % 256 >>

Decompress(c) ==
    IF Len(c) >= 3 /\ c[1] = 31 /\ c[2] = 139 /\ c[Len(c)] = (Len(c) - 3) % 256
    THEN [ok |-> TRUE, pt |-> SubSeq(c, 3, Len(c) - 1)]
    ELSE [ok |-> FALSE, pt |-> <<>>]

DecryptionErr == [ok |-> FALSE, variant |-> "Decryption", msg |-> "decryption failed"]

\* encrypt(plaintext, aad) = nonce || sealed, the nonce being the k-th draw
Encryptor_encrypt(msg, aad, k) == NonceOf(k) \o AeadEncrypt(NonceOf(k), aad, msg)

Encryptor_encrypt_compressed(msg, aad, k) == Encryptor_encrypt(Compress(msg), aad, k)

Encryptor_decrypt(blob, aad) ==
    IF Len(blob) < NONCE_LEN
    THEN [res |-> DecryptionErr, out |-> <<>>]
    ELSE LET o == AeadDecrypt(Take(blob, NONCE_LEN), aad, Drop(blob, NONCE_LEN))
         IN  IF o.ok THEN [res |-> Ok, out |-> o.pt]
             ELSE [res |-> DecryptionErr, out |-> <<>>]

Encryptor_decrypt_compressed(blob, aad) ==
    LET d == Encryptor_decrypt(blob, aad)
    IN  IF ~d.res.ok THEN d
        ELSE IF Decompress(d.out).ok THEN [res |-> Ok, out |-> Decompress(d.out).pt]
        ELSE [res |-> DecryptionErr, out |-> <<>>]

(* ========================= paths and names ============================ *)
\* ASCII
SLASH == 47
DOT == 46

\* "meta.json"
MetaJson == <<109, 101, 116, 97, 46, 106, 115, 111, 110>>

\* "json"
Json == <<106, 115, 111, 110>>

\* the storage root "r"
Root == <<114>>

\* the logical names of the model: "a.t", "a.json" and the absolute "/x"
Names == { <<97, 46, 116>>, <<97, 46, 106, 115, 111, 110>>, <<47, 120>> }

\* PathBuf::join: an absolute name replaces the root
join(root, name) ==
    IF name # <<>> /\ name[1] = SLASH THEN name ELSE root \o <<SLASH>> \o name

LastIndexOf(s, ch) ==
    LET I == { i \in 1..Len(s) : s[i] = ch }
    IN  IF I = {} THEN 0 ELSE CHOOSE i \in I : \A j \in I : j <= i

\* Path::file_name: the last component
file_name(path) == Drop(path, LastIndexOf(path, SLASH))

\* index in the file name of the dot that begins the extension, 0 if none
\* (a leading dot begins no extension)
ExtDot(fname) == IF LastIndexOf(fname, DOT) > 1 THEN LastIndexOf(fname, DOT) ELSE 0

\* Path::extension; <<>> stands for None
extension(path) ==
    LET f == file_name(path)
    IN  IF ExtDot(f) = 0 THEN <<>> ELSE Drop(f, ExtDot(f))

\* Path::with_extension: the extension, if any, is replaced
with_extension(path, ext) ==
    LET f    == file_name(path)
        dir  == Take(path, Len(path) - Len(f))
        stem == IF ExtDot(f) = 0 THEN f ELSE Take(f, ExtDot(f) - 1)
    IN  dir \o stem \o <<DOT>> \o ext

(* ======================== src/metadata.rs ============================= *)
RECURSIVE Digits(_)
Digits(n) == IF n < 10 THEN << 48 + n >> ELSE Digits(n \div 10) \o << 48 + (n % 10) >>

\* serde_json::to_string_pretty(&FileMetadata { filename, size }):
\* {\n  "filename": "<filename>",\n  "size": <size>\n}
JsonHead == <<123, 10, 32, 32, 34, 102, 105, 108, 101, 110, 97, 109, 101, 34, 58, 32, 34>>

JsonMid == <<34, 44, 10, 32, 32, 34, 115, 105, 122, 101, 34, 58, 32>>

JsonTail == <<10, 125>>

to_string_pretty(filename, size) ==
    JsonHead \o filename \o JsonMid \o Digits(size) \o JsonTail

\* ASCII '"'
QUOTE == 34

\* index of the first ch in s, 0 if none
FirstIndexOf(s, ch) ==
    LET I == { i \in 1..Len(s) : s[i] = ch }
    IN  IF I = {} THEN 0 ELSE CHOOSE i \in I : \A j \in I : i <= j

IsDigits(s) == s # <<>> /\ \A i \in 1..Len(s) : s[i] >= 48 /\ s[i] <= 57

RECURSIVE ParseDigits(_)
ParseDigits(s) ==
    IF s = <<>> THEN 0 ELSE 10 * ParseDigits(Take(s, Len(s) - 1)) + (s[Len(s)] - 48)

\* serde_json::from_str::<FileMetadata> on the text to_string_pretty writes:
\* the string up to the closing quote is the filename, the digits are the
\* size; any other text (empty, cut short, with trailing bytes) is an error
from_str(text) ==
    LET bad  == [ok |-> FALSE, filename |-> <<>>, size |-> 0]
        rest == Drop(text, Len(JsonHead))
        q    == FirstIndexOf(rest, QUOTE)
        tl   == Drop(rest, q - 1)
        num  == SubSeq(tl, Len(JsonMid) + 1, Len(tl) - Len(JsonTail))
    IN  IF Len(text) < Len(JsonHead) \/ Take(text, Len(JsonHead)) # JsonHead THEN bad
        ELSE IF q = 0 THEN bad
        ELSE IF Len(tl) < Len(JsonMid) + 1 + Len(JsonTail) THEN bad
        ELSE IF Take(tl, Len(JsonMid)) # JsonMid THEN bad
        ELSE IF Drop(tl, Len(tl) - Len(JsonTail)) # JsonTail THEN bad
        ELSE IF ~IsDigits(num) \/ (Len(num) > 1 /\ num[1] = 48) THEN bad
        ELSE [ok |-> TRUE, filename |-> Take(rest, q - 1), size |-> ParseDigits(num)]

\* the sidecar path and content FileMetadata::record writes for an object
MetaPath(path) == with_extension(path, MetaJson)

RecordJson(path, size) == to_string_pretty(file_name(path), size)

(* ============================ state =================================== *)
VARIABLES
    \* --- one run of the streaming engine over in-memory streams ---
    plain,      \* the bytes the source of encrypt_stream holds
    encAad,     \* aad of encrypt_stream
    encFlags,   \* flags.compressed of encrypt_stream
    encPc,      \* position of encrypt_stream: "header", "loop", "done"
    encPos,     \* bytes of plain already read
    wire,       \* the bytes written by encrypt_stream; the input of decrypt_stream
    encTotal,   \* total_bytes of encrypt_stream
    tamper,     \* what was done to wire between the two calls
    present,    \* the chunks of wire, by the order they were written in, after
                \* whole chunks were dropped or reordered
    decAad,     \* aad of decrypt_stream
    decPc,      \* position of decrypt_stream: "idle", "version", "flags", "loop", "done"
    decPos,     \* bytes of wire already read
    decTail,    \* bytes that were left when the nonce read met end of input
    sink,       \* the bytes written by decrypt_stream
    decTotal,   \* total_bytes of decrypt_stream
    decFlags,   \* flags.compressed parsed by decrypt_stream
    decChunks,  \* chunks opened and written by decrypt_stream
    decBuf,     \* length of the largest ciphertext buffer decrypt_stream allocated
    decRes,     \* result of decrypt_stream
    chunkAt,    \* offset in wire at which encrypt_stream began each chunk
    rng,        \* the next draw of OsRng
    \* --- the storage facade over one storage root ---
    fs,         \* the files of the storage root: path -> bytes
    rootExists, \* the storage root directory exists
    compress,   \* SecureFileOps.compress
    call,       \* per caller: the call in progress and its position
    ret,        \* per caller: what its last call returned
    calls,      \* calls the run may still begin
    stored,     \* per name: which write produced the object now stored there
    hist,       \* whether every change so far was a write_encrypted to one name
    snap,       \* the files as they were when the last delete_file or
                \* write_encrypted_stream began
    swallowed,  \* the last delete_file ignored a failure to remove the sidecar
    \* --- KeyManager over one key path ---
    keyFile,    \* the key file: <<>> when absent, <<bytes>> when present
    keyInit,    \* the key file as it was before the first KeyManager::new
    unix,       \* the build is for a unix target
    km,         \* per caller: its KeyManager::new call and the manager it got
    keyRng,     \* the next draw of OsRng for a key
    creations,  \* times the key file was created
    clobbered   \* a created key file was opened for writing again

streamVars ==
    << plain, encAad, encFlags, encPc, encPos, wire, encTotal, tamper, present, decAad,
       decPc, decPos, decTail, sink, decTotal, decFlags, decChunks, decBuf,
       decRes, chunkAt, rng >>

facadeVars ==
    << fs, rootExists, compress, call, ret, calls, stored, hist, snap, swallowed >>

keyVars == << keyFile, keyInit, unix, km, keyRng, creations, clobbered >>

vars == << streamVars, facadeVars, keyVars >>

(* ===================== runs of the engine alone ======================= *)
\* the callers of the facade
Procs == {1, 2}

Idle == [op |-> "idle", pc |-> "idle", name |-> <<>>, data |-> <<>>, enc |-> <<>>]

NoRet == [op |-> "none", name |-> <<>>, res |-> Ok, out |-> <<>>, count |-> 0,
          flag |-> FALSE, files |-> <<>>]

NotStored == [kind |-> "none", data |-> <<>>, origin |-> <<>>, gen |-> 0, cmp |-> FALSE]

EmptyFs == [q \in {} |-> <<>>]

\* the facade as constructed, before any call
FacadeFresh ==
    /\ fs = EmptyFs
    /\ rootExists = FALSE
    /\ call = [p \in Procs |-> Idle]
    /\ ret = [p \in Procs |-> NoRet]
    /\ stored = [n \in Names |-> NotStored]
    /\ hist = [st |-> "fresh", name |-> <<>>, distinct |-> TRUE, written |-> {},
               overlap |-> FALSE]
    /\ snap = EmptyFs
    /\ swallowed = FALSE

\* a caller that has not called KeyManager::new
NoKm == [pc |-> "none", ok |-> FALSE, key |-> <<>>, buf |-> <<>>, held |-> "none",
         generated |-> FALSE, creator |-> FALSE, facade |-> FALSE]

\* no KeyManager is constructed in a run of the engine or of the facade: the
\* cipher they use is given
KeyUnused ==
    /\ keyFile = <<>> /\ keyInit = <<>> /\ unix = TRUE
    /\ km = [p \in Procs |-> NoKm]
    /\ keyRng = 0 /\ creations = 0 /\ clobbered = FALSE

\* the facade is not part of a run of the engine alone
FacadeUnused == FacadeFresh /\ compress = FALSE /\ calls = 0

encVars == << plain, encAad, encFlags, encPc, encPos, encTotal, chunkAt, rng >>

decVars ==
    << decAad, decPc, decPos, decTail, sink, decTotal, decFlags, decChunks, decBuf, decRes >>

InitStream ==
    /\ FacadeUnused
    /\ KeyUnused
    /\ plain \in Plaintexts
    /\ encAad \in EncAadOpts
    /\ encFlags \in BOOLEAN
    /\ encPc = "header"
    /\ encPos = 0
    /\ wire = <<>>
    /\ encTotal = 0
    /\ tamper = "none"
    /\ present = <<>>
    /\ decAad = None
    /\ decPc = "idle"
    /\ decPos = 0
    /\ decTail = 0
    /\ sink = <<>>
    /\ decTotal = 0
    /\ decFlags = FALSE
    /\ decChunks = 0
    /\ decBuf = 0
    /\ decRes = Ok
    /\ chunkAt = <<>>
    /\ rng \in StreamSeeds

\* encrypt_stream: write_u8(version), write_u8(flags)
EncHeader ==
    /\ encPc = "header"
    /\ wire' = wire \o StreamHeader(encFlags)
    /\ encPc' = "loop"
    /\ UNCHANGED << plain, encAad, encFlags, encPos, encTotal, chunkAt, rng, tamper, present,
                    decVars, facadeVars, keyVars >>

\* encrypt_stream: one iteration with a read of n > 0 bytes
EncChunk ==
    /\ encPc = "loop"
    /\ encPos < Len(plain)
    /\ \E n \in 1..Min(CHUNK_SIZE, Len(plain) - encPos) :
         /\ wire' = wire \o SealChunk(ChunkNonce(rng, Len(chunkAt)), encAad,
                                      SubSeq(plain, encPos + 1, encPos + n))
         /\ encPos' = encPos + n
         /\ encTotal' = encTotal + n
    /\ rng' = rng + 1
    /\ chunkAt' = Append(chunkAt, Len(wire))
    /\ UNCHANGED << plain, encAad, encFlags, encPc, tamper, present, decVars, facadeVars, keyVars >>

\* encrypt_stream: the read returns 0; flush and return total_bytes
EncEof ==
    /\ encPc = "loop"
    /\ encPos = Len(plain)
    /\ encPc' = "done"
    /\ UNCHANGED << plain, encAad, encFlags, encPos, wire, encTotal, chunkAt, rng,
                    tamper, present, decVars, facadeVars, keyVars >>

\* The stored stream is cut after k bytes, inside the header or the last
\* chunk: a cut inside an earlier chunk gives the stream that the cut of a
\* shorter plaintext gives.  Inside the chunk the cuts are: at its start,
\* after the first and before the last byte of its nonce, of its length and
\* of its ciphertext, and between these fields.
CutPoints ==
    {0, 1} \cup
    (IF chunkAt = <<>> THEN {}
     ELSE LET c == chunkAt[Len(chunkAt)]
          IN  { c, c + 1, c + NONCE_LEN - 1, c + NONCE_LEN, c + NONCE_LEN + 1,
                c + NONCE_LEN + LEN_FIELD - 1, c + NONCE_LEN + LEN_FIELD,
                c + NONCE_LEN + LEN_FIELD + 1, Len(wire) - TAG_LEN, Len(wire) - 1 })

Truncate ==
    /\ encPc = "done" /\ decPc = "idle" /\ tamper = "none"
    /\ \E k \in CutPoints : wire' = SubSeq(wire, 1, k)
    /\ tamper' = "truncate"
    /\ UNCHANGED << encVars, decVars, present, facadeVars, keyVars >>

\* the version byte is altered
SetVersion ==
    /\ encPc = "done" /\ decPc = "idle" /\ tamper = "none"
    /\ \E v \in {0, 1, 3, 255} : wire' = [wire EXCEPT ![1] = v]
    /\ tamper' = "version"
    /\ UNCHANGED << encVars, decVars, present, facadeVars, keyVars >>

\* One byte of one chunk is altered: the first or last byte of its nonce,
\* the low byte of its length, the first byte of its ciphertext or the last
\* byte of its tag.
ChunkEnd(c) == IF c = Len(chunkAt) THEN Len(wire) ELSE chunkAt[c + 1]

FlipPoints ==
    UNION { { chunkAt[c] + 1, chunkAt[c] + NONCE_LEN, chunkAt[c] + NONCE_LEN + LEN_FIELD,
              chunkAt[c] + NONCE_LEN + LEN_FIELD + 1, ChunkEnd(c) } :
            c \in 1..Len(chunkAt) }

FlipByte ==
    /\ encPc = "done" /\ decPc = "idle" /\ tamper = "none"
    /\ \E i \in FlipPoints : wire' = [wire EXCEPT ![i] = (wire[i] + 1) % 256]
    /\ tamper' = "flip"
    /\ UNCHANGED << encVars, decVars, present, facadeVars, keyVars >>

\* The length field of the first chunk is replaced: by 0, or by the largest
\* value of the field
SetLength ==
    /\ encPc = "done" /\ decPc = "idle" /\ tamper = "none"
    /\ chunkAt # <<>>
    /\ \E v \in { <<0, 0, 0, 0>>, <<255, 255, 255, 255>> } :
          wire' = SubSeq(wire, 1, chunkAt[1] + NONCE_LEN) \o v
                  \o Drop(wire, chunkAt[1] + NONCE_LEN + LEN_FIELD)
    /\ tamper' = "length"
    /\ UNCHANGED << encVars, decVars, present, facadeVars, keyVars >>

\* the bytes of chunk c as encrypt_stream wrote them
ChunkBytes(c) == SubSeq(wire, chunkAt[c] + 1, ChunkEnd(c))

\* the header followed by the chunks cs, in that order
Reassemble(cs) ==
    LET RECURSIVE Cat(_)
        Cat(i) == IF i > Len(cs) THEN <<>> ELSE ChunkBytes(cs[i]) \o Cat(i + 1)
    IN  SubSeq(wire, 1, 2) \o Cat(1)

\* the orders in which n chunks can be arranged
Arrangements(n) ==
    { f \in [1..n -> 1..n] : \A i, j \in 1..n : f[i] = f[j] => i = j }

\* Whole chunks are cut off the end of the stream: a proper prefix of the
\* chunks is left after the header
DropChunks ==
    /\ encPc = "done" /\ decPc = "idle" /\ tamper = "none"
    /\ chunkAt # <<>>
    /\ \E k \in 0..(Len(chunkAt) - 1) :
          /\ present' = [i \in 1..k |-> i]
          /\ wire' = Reassemble(present')
    /\ tamper' = "prefix"
    /\ UNCHANGED << encVars, decVars, facadeVars, keyVars >>

\* The chunks of the stream are put in another order
ReorderChunks ==
    /\ encPc = "done" /\ decPc = "idle" /\ tamper = "none"
    /\ Len(chunkAt) >= 2 /\ Len(chunkAt) <= MaxReorder
    /\ \E f \in Arrangements(Len(chunkAt)) :
          /\ \E i \in 1..Len(chunkAt) : f[i] # i
          /\ present' = f
          /\ wire' = Reassemble(f)
    /\ tamper' = "reorder"
    /\ UNCHANGED << encVars, decVars, facadeVars, keyVars >>

\* flags bytes with reserved bits set
ReservedFlags == { 2, 3, 128, 254, 255 }

\* The flags byte of the header is replaced by one with reserved bits set
SetFlags ==
    /\ encPc = "done" /\ decPc = "idle" /\ tamper = "none"
    /\ \E b \in ReservedFlags : wire' = [wire EXCEPT ![2] = b]
    /\ tamper' = "flags"
    /\ UNCHANGED << encVars, decVars, present, facadeVars, keyVars >>

\* decrypt_stream is called on the stream: with any aad on the stream as
\* written, with the aad of encrypt_stream on an altered stream
DecStart ==
    /\ encPc = "done" /\ decPc = "idle"
    /\ decAad' \in AadOpts
    /\ tamper = "none" \/ decAad' = encAad
    /\ decPc' = "version"
    /\ UNCHANGED << encVars, wire, tamper, present, decPos, decTail, sink, decTotal, decFlags,
                    decChunks, decBuf, decRes, facadeVars, keyVars >>

\* decrypt_stream: read and validate the version byte
DecVersion ==
    /\ decPc = "version"
    /\ LET r == CheckVersion(wire)
       IN  IF r.ok
           THEN /\ decPos' = 1
                /\ decPc' = "flags"
                /\ UNCHANGED decRes
           ELSE /\ decRes' = r
                /\ decPc' = "done"
                /\ UNCHANGED decPos
    /\ UNCHANGED << encVars, wire, tamper, present, decAad, decTail, sink, decTotal, decFlags,
                    decChunks, decBuf, facadeVars, keyVars >>

\* decrypt_stream: read the flags byte
DecFlags ==
    /\ decPc = "flags"
    /\ IF Len(wire) < 2
       THEN /\ decRes' = IoErr("reading flags byte")
            /\ decPc' = "done"
            /\ UNCHANGED << decPos, decFlags >>
       ELSE /\ decFlags' = from_byte(wire[2])
            /\ decPos' = 2
            /\ decPc' = "loop"
            /\ UNCHANGED decRes
    /\ UNCHANGED << encVars, wire, tamper, present, decAad, decTail, sink, decTotal, decChunks,
                    decBuf, facadeVars, keyVars >>

\* (mutant) the plaintext of a chunk is put before what was written so far
DecChunkPrepend ==
    /\ decPc = "loop"
    /\ LET it == DecryptIter(wire, decPos, decAad)
       IN  /\ decPos' = it.pos
           /\ decTail' = it.tail
           /\ decRes' = it.res
           /\ sink' = it.pt \o sink
           /\ decTotal' = decTotal + Len(it.pt)
           /\ decChunks' = IF it.kind = "chunk" THEN decChunks + 1 ELSE decChunks
           /\ decBuf' = IF it.alloc > decBuf THEN it.alloc ELSE decBuf
           /\ decPc' = IF it.kind = "chunk" THEN "loop" ELSE "done"
    /\ UNCHANGED << encVars, wire, tamper, present, decAad, decFlags, facadeVars, keyVars >>

\* decrypt_stream: one iteration of the loop
DecChunk ==
    /\ decPc = "loop"
    /\ LET it == DecryptIter(wire, decPos, decAad)
       IN  /\ decPos' = it.pos
           /\ decTail' = it.tail
           /\ decRes' = it.res
           /\ sink' = sink \o it.pt
           /\ decTotal' = decTotal + Len(it.pt)
           /\ decChunks' = IF it.kind = "chunk" THEN decChunks + 1 ELSE decChunks
           /\ decBuf' = IF it.alloc > decBuf THEN it.alloc ELSE decBuf
           /\ decPc' = IF it.kind = "chunk" THEN "loop" ELSE "done"
    /\ UNCHANGED << encVars, wire, tamper, present, decAad, decFlags, facadeVars, keyVars >>

NextStream ==
    \/ EncHeader \/ EncChunk \/ EncEof
    \/ Truncate \/ SetVersion \/ FlipByte \/ SetLength \/ DropChunks \/ ReorderChunks
    \/ SetFlags
    \/ DecStart \/ DecVersion \/ DecFlags \/ DecChunk

SpecStream == InitStream /\ [][NextStream]_vars

(* ===================== src/storagefile_ops.rs ========================= *)
\* the object path of a logical name: self.root.join(name)
ObjPath(name) == join(Root, name)

\* (mutant) every object is sealed under one fixed aad
StreamAadFixed(name) == Some(<<>>)

\* let aad = name.as_bytes(); ... Some(aad)
StreamAad(name) == Some(name)

\* the plaintexts callers write: empty, and one chunk + 1 byte
FileData == { <<>>, PlainOf(65, CHUNK_SIZE + 1) }

FsPut(files, path, bytes) ==
    [q \in DOMAIN files \cup {path} |-> IF q = path THEN bytes ELSE files[q]]

\* (mutant) remove_file that removes nothing
FsRemoveNothing(files, path) == files

FsRemove(files, path) == [q \in DOMAIN files \ {path} |-> files[q]]

\* (mutant) the file is opened without being cut to length 0
FsCreateNoTruncate(files, path) ==
    IF path \in DOMAIN files THEN files ELSE FsPut(files, path, <<>>)

\* File::create: a new empty file, or the old one cut to length 0
FsCreate(files, path) == FsPut(files, path, <<>>)

\* write_all from offset 0 through a handle opened earlier; bytes written to
\* a file that was removed meanwhile are lost
FsWriteAt0(files, path, bytes) ==
    IF path \in DOMAIN files
    THEN FsPut(files, path, bytes \o Drop(files[path], Len(bytes)))
    ELSE files

MkRet(op, name, res, out, count, flag, files) ==
    [op |-> op, name |-> name, res |-> res, out |-> out, count |-> count,
     flag |-> flag, files |-> files]

\* (mutant) read_encrypted opens the object as if compression were off
ReadEncryptedNoDecompress(files, cmp, name) ==
    IF ObjPath(name) \notin DOMAIN files
    THEN MkRet("read_encrypted", name, IoErr("reading"), <<>>, 0, FALSE, <<>>)
    ELSE LET d == Encryptor_decrypt(files[ObjPath(name)], None)
         IN  MkRet("read_encrypted", name, d.res, d.out, 0, FALSE, <<>>)

\* exists: try_exists(&path).unwrap_or(false)
ExistsRes(files, name) == ObjPath(name) \in DOMAIN files

\* read_encrypted
ReadEncryptedRes(files, cmp, name) ==
    IF ObjPath(name) \notin DOMAIN files
    THEN MkRet("read_encrypted", name, IoErr("reading"), <<>>, 0, FALSE, <<>>)
    ELSE LET d == IF cmp THEN Encryptor_decrypt_compressed(files[ObjPath(name)], None)
                  ELSE Encryptor_decrypt(files[ObjPath(name)], None)
         IN  MkRet("read_encrypted", name, d.res, d.out, 0, FALSE, <<>>)

\* read_encrypted_stream: out is what the caller's writer received
ReadEncryptedStreamRes(files, name) ==
    IF ObjPath(name) \notin DOMAIN files
    THEN MkRet("read_encrypted_stream", name, IoErr("opening"), <<>>, 0, FALSE, <<>>)
    ELSE LET d == DecryptStream(files[ObjPath(name)], StreamAad(name))
         IN  MkRet("read_encrypted_stream", name, d.res, d.out, d.count, d.flag, <<>>)

\* the V1 branch of the auto-detecting readers
ReadV1(data, cmp) ==
    IF cmp THEN Encryptor_decrypt_compressed(data, None)
    ELSE Encryptor_decrypt(data, None)

\* read_encrypted_auto: the output Vec is returned on success only
ReadEncryptedAutoRes(files, cmp, name) ==
    LET op == "read_encrypted_auto" IN
    IF ObjPath(name) \notin DOMAIN files
    THEN MkRet(op, name, IoErr("reading"), <<>>, 0, FALSE, <<>>)
    ELSE LET data == files[ObjPath(name)] IN
         IF data = <<>>
         THEN MkRet(op, name, AdhocErr("encrypted file is empty"), <<>>, 0, FALSE, <<>>)
         ELSE IF data[1] = VERSION_V2_STREAM
         THEN LET d == DecryptStream(data, StreamAad(name))
              IN  MkRet(op, name, d.res, IF d.res.ok THEN d.out ELSE <<>>, 0, d.flag, <<>>)
         ELSE LET d == ReadV1(data, cmp)
              IN  MkRet(op, name, d.res, d.out, 0, d.res.ok /\ cmp, <<>>)

\* read_encrypted_stream_auto: out is what the caller's writer received
ReadEncryptedStreamAutoRes(files, cmp, name) ==
    LET op == "read_encrypted_stream_auto" IN
    IF ObjPath(name) \notin DOMAIN files
    THEN MkRet(op, name, IoErr("reading"), <<>>, 0, FALSE, <<>>)
    ELSE LET data == files[ObjPath(name)] IN
         IF data = <<>>
         THEN MkRet(op, name, AdhocErr("encrypted file is empty"), <<>>, 0, FALSE, <<>>)
         ELSE IF data[1] = VERSION_V2_STREAM
         THEN LET d == DecryptStream(data, StreamAad(name))
              IN  MkRet(op, name, d.res, d.out, d.count, d.flag, <<>>)
         ELSE LET d == ReadV1(data, cmp)
              IN  MkRet(op, name, d.res, d.out, IF d.res.ok THEN Len(d.out) ELSE 0,
                        d.res.ok /\ cmp, <<>>)

\* get_metadata: out is the filename and count the size of the record
GetMetadataRes(files, name) ==
    LET op == "get_metadata"
        mp == MetaPath(ObjPath(name))
    IN  IF mp \notin DOMAIN files
        THEN MkRet(op, name, IoErr("reading metadata"), <<>>, 0, FALSE, <<>>)
        ELSE IF ~from_str(files[mp]).ok
        THEN MkRet(op, name, AdhocErr("parsing metadata"), <<>>, 0, FALSE, <<>>)
        ELSE MkRet(op, name, Ok, from_str(files[mp]).filename, from_str(files[mp]).size,
                   FALSE, <<>>)

\* a.0.cmp(&b.0) = Less on strings: bytewise lexicographic order
LexLess(a, b) ==
    \E i \in 1..(Min(Len(a), Len(b)) + 1) :
        /\ \A j \in 1..(i - 1) : a[j] = b[j]
        /\ \/ i > Len(a) /\ i <= Len(b)
           \/ i <= Len(a) /\ i <= Len(b) /\ a[i] < b[i]

RECURSIVE SortByName(_)
SortByName(S) ==
    IF S = {} THEN <<>>
    ELSE LET m == CHOOSE x \in S : \A y \in S \ {x} : LexLess(x.name, y.name)
         IN  <<m>> \o SortByName(S \ {m})

\* read_dir(&self.root): the files that are direct entries of the root
DirEntries(files) ==
    { q \in DOMAIN files : /\ Len(q) > Len(Root) + 1
                           /\ Take(q, Len(Root) + 1) = Root \o <<SLASH>>
                           /\ LastIndexOf(q, SLASH) = Len(Root) + 1 }

\* list_files: the entries are the files of the root; those whose extension
\* is "json" are skipped
ListFilesRes(files, exists) ==
    IF ~exists THEN MkRet("list_files", <<>>, Ok, <<>>, 0, FALSE, <<>>)
    ELSE LET kept == { q \in DirEntries(files) : extension(q) # Json }
             rows == { [name |-> file_name(q), size |-> Len(files[q]),
                        has_metadata |-> MetaPath(q) \in DOMAIN files] : q \in kept }
         IN  MkRet("list_files", <<>>, Ok, <<>>, 0, FALSE, SortByName(rows))

(* --------------------------- facade calls ----------------------------- *)
EngineVars ==
    << plain, encAad, encFlags, encPc, encPos, wire, encTotal, tamper, present, decAad, decPc,
       decPos, decTail, sink, decTotal, decFlags, decChunks, decBuf, decRes, chunkAt >>

\* the engine variables while the facade runs
EngineUnused ==
    /\ plain = <<>> /\ encAad = None /\ encFlags = FALSE /\ encPc = "done"
    /\ encPos = 0 /\ wire = <<>> /\ encTotal = 0 /\ tamper = "none"
    /\ present = <<>> /\ decAad = None /\ decPc = "done" /\ decPos = 0 /\ decTail = 0
    /\ sink = <<>> /\ decTotal = 0 /\ decFlags = FALSE /\ decChunks = 0 /\ decBuf = 0
    /\ decRes = Ok /\ chunkAt = <<>>

\* SecureFileOps::new(km, root).with_compression(c)
InitFacade ==
    /\ EngineUnused
    /\ KeyUnused
    /\ FacadeFresh
    /\ compress \in BOOLEAN
    /\ rng \in FacadeSeeds
    /\ calls = MaxCalls

\* the same facade in an Arc that several callers share
InitShared ==
    /\ EngineUnused
    /\ KeyUnused
    /\ FacadeFresh
    /\ compress \in BOOLEAN
    /\ rng \in RngSeeds
    /\ calls = MaxShared

HistWrite(name) ==
    [ st       |-> IF hist.st = "fresh" \/ (hist.st = "one" /\ hist.name = name)
                   THEN "one" ELSE "mixed",
      name     |-> IF hist.st = "fresh" \/ (hist.st = "one" /\ hist.name = name)
                   THEN name ELSE <<>>,
      distinct |-> hist.distinct /\ name \notin hist.written,
      written  |-> hist.written \cup {name},
      overlap  |-> hist.overlap \/ \E q \in Procs : call[q].op # "idle" ]

HistOther ==
    [ st |-> "mixed", name |-> <<>>, distinct |-> FALSE, written |-> hist.written,
      overlap |-> hist.overlap \/ \E q \in Procs : call[q].op # "idle" ]

\* caller p begins call c
Begin(p, c) ==
    /\ calls > 0
    /\ call[p].op = "idle"
    /\ call' = [call EXCEPT ![p] = c]
    /\ ret' = [ret EXCEPT ![p] = NoRet]
    /\ calls' = calls - 1

\* the call of p returns r
Return(p, r) ==
    /\ call' = [call EXCEPT ![p] = Idle]
    /\ ret' = [ret EXCEPT ![p] = r]

At(p, op, pc) == call[p].op = op /\ call[p].pc = pc

Goto(p, pc) ==
    /\ call' = [call EXCEPT ![p].pc = pc]
    /\ UNCHANGED ret

\* the buffer write_encrypted seals
SealBuffer(cmp, data, k) ==
    IF cmp THEN Encryptor_encrypt_compressed(data, None, k)
    ELSE Encryptor_encrypt(data, None, k)

\* write_encrypted: create_dir_all, seal the data
WriteEncryptedBegin(p) ==
    \E name \in Names, data \in FileData :
        /\ Begin(p, [op |-> "write_encrypted", pc |-> "create", name |-> name,
                     data |-> data, enc |-> SealBuffer(compress, data, rng)])
        /\ rootExists' = TRUE
        /\ rng' = rng + 1
        /\ hist' = HistWrite(name)
        /\ UNCHANGED << EngineVars, keyVars, fs, compress, swallowed, stored, snap >>

\* write_encrypted: fs::write opens the object file, cutting it to length 0
WriteEncryptedCreate(p) ==
    /\ At(p, "write_encrypted", "create")
    /\ fs' = FsCreate(fs, ObjPath(call[p].name))
    /\ Goto(p, "write")
    /\ UNCHANGED << EngineVars, keyVars, rng, rootExists, compress, swallowed, calls, stored, hist, snap >>

\* write_encrypted: fs::write writes the sealed bytes
WriteEncryptedWrite(p) ==
    /\ At(p, "write_encrypted", "write")
    /\ fs' = FsWriteAt0(fs, ObjPath(call[p].name), call[p].enc)
    /\ Goto(p, "record_create")
    /\ UNCHANGED << EngineVars, keyVars, rng, rootExists, compress, swallowed, calls, stored, hist, snap >>

\* write_encrypted_stream: create_dir_all, File::create
WriteStreamBegin(p) ==
    \E name \in Names, data \in FileData :
        /\ Begin(p, [op |-> "write_encrypted_stream", pc |-> "stream", name |-> name,
                     data |-> data, enc |-> <<>>])
        /\ rootExists' = TRUE
        /\ fs' = FsCreate(fs, ObjPath(name))
        /\ snap' = fs
        /\ hist' = HistOther
        /\ UNCHANGED << EngineVars, keyVars, rng, compress, swallowed, stored >>

\* an object file that a failed write left behind
Torn == [kind |-> "torn", data |-> <<>>, origin |-> <<>>, gen |-> 0, cmp |-> FALSE]

\* write_encrypted_stream: encrypt_stream into the file, from a source
\* whose reads all succeed
WriteStreamEncrypt(p) ==
    /\ At(p, "write_encrypted_stream", "stream")
    /\ fs' = FsWriteAt0(fs, ObjPath(call[p].name),
                        EncryptStream(call[p].data, rng, compress, StreamAad(call[p].name)))
    /\ rng' = rng + NumChunks(call[p].data)
    /\ Goto(p, "record_create")
    /\ UNCHANGED << EngineVars, keyVars, rootExists, compress, swallowed, calls, stored, hist, snap >>

\* write_encrypted_stream: encrypt_stream into the file, from a source that
\* fails at one of its reads: the header and the chunks of the reads before
\* it are in the file, and the error returns through `?` before the record
WriteStreamFail(p) ==
    /\ At(p, "write_encrypted_stream", "stream")
    /\ \E reads \in 0..NumChunks(call[p].data) :
          /\ fs' = FsWriteAt0(fs, ObjPath(call[p].name),
                              EncryptStream(Take(call[p].data, reads * CHUNK_SIZE), rng,
                                            compress, StreamAad(call[p].name)))
          /\ rng' = rng + reads
    /\ Return(p, MkRet(call[p].op, call[p].name, IoErr("source"), <<>>, 0, FALSE, <<>>))
    /\ stored' = [stored EXCEPT ![call[p].name] = Torn]
    /\ UNCHANGED << EngineVars, keyVars, rootExists, compress, swallowed, calls, hist, snap >>

\* FileMetadata::record: fs::write opens the sidecar, cutting it to length 0
RecordCreate(p) ==
    /\ call[p].pc = "record_create"
    /\ fs' = FsCreate(fs, MetaPath(ObjPath(call[p].name)))
    /\ Goto(p, "record_write")
    /\ UNCHANGED << EngineVars, keyVars, rng, rootExists, compress, swallowed, calls, stored, hist, snap >>

\* FileMetadata::record: fs::write writes the JSON; the write call returns
RecordWrite(p) ==
    /\ call[p].pc = "record_write"
    /\ fs' = FsWriteAt0(fs, MetaPath(ObjPath(call[p].name)),
                        RecordJson(ObjPath(call[p].name), Len(call[p].data)))
    /\ Return(p, MkRet(call[p].op, call[p].name, Ok, <<>>, Len(call[p].data), FALSE, <<>>))
    /\ stored' = [stored EXCEPT ![call[p].name] =
                    [kind |-> IF call[p].op = "write_encrypted" THEN "v1" ELSE "v2",
                     data |-> call[p].data, origin |-> call[p].name,
                     gen |-> stored[call[p].name].gen + 1, cmp |-> compress]]
    /\ UNCHANGED << EngineVars, keyVars, rng, rootExists, compress, swallowed, calls, hist, snap >>

\* a read-only call of p: it begins and returns r
ReadOnly(p, r) ==
    /\ calls > 0
    /\ call[p].op = "idle"
    /\ ret' = [ret EXCEPT ![p] = r]
    /\ calls' = calls - 1
    /\ UNCHANGED << EngineVars, keyVars, rng, fs, rootExists, compress, swallowed, call, stored, hist, snap >>

ReadEncrypted(p) == \E name \in Names : ReadOnly(p, ReadEncryptedRes(fs, compress, name))

ReadEncryptedStream(p) == \E name \in Names : ReadOnly(p, ReadEncryptedStreamRes(fs, name))

ReadEncryptedAuto(p) ==
    \E name \in Names : ReadOnly(p, ReadEncryptedAutoRes(fs, compress, name))

ReadEncryptedStreamAuto(p) ==
    \E name \in Names : ReadOnly(p, ReadEncryptedStreamAutoRes(fs, compress, name))

ListFiles(p) == ReadOnly(p, ListFilesRes(fs, rootExists))

GetMetadata(p) == \E name \in Names : ReadOnly(p, GetMetadataRes(fs, name))

\* delete_file: try_exists(&path)
DeleteBegin(p) ==
    \E name \in Names :
        /\ Begin(p, [op |-> "delete_file",
                     pc |-> IF ObjPath(name) \in DOMAIN fs THEN "remove" ELSE "meta",
                     name |-> name, data |-> <<>>, enc |-> <<>>])
        /\ snap' = fs
        /\ swallowed' = FALSE
        /\ hist' = HistOther
        /\ UNCHANGED << EngineVars, keyVars, rng, fs, rootExists, compress, stored >>

\* (mutant) a failure to remove the object file is ignored like that of
\* the sidecar
DeleteRemoveBestEffort(p) ==
    /\ At(p, "delete_file", "remove")
    /\ \E refused \in BOOLEAN :
       IF ObjPath(call[p].name) \in DOMAIN fs /\ ~refused
       THEN /\ fs' = FsRemove(fs, ObjPath(call[p].name))
            /\ stored' = [stored EXCEPT ![call[p].name] = NotStored]
       ELSE UNCHANGED << fs, stored >>
    /\ Goto(p, "meta")
    /\ UNCHANGED << EngineVars, keyVars, rng, rootExists, compress, swallowed, calls, hist, snap >>

\* delete_file: remove_file(&path); an error returns at once. The removal
\* fails when the file is gone meanwhile or when the file system refuses it
DeleteRemove(p) ==
    /\ At(p, "delete_file", "remove")
    /\ \E refused \in BOOLEAN :
       IF ObjPath(call[p].name) \in DOMAIN fs /\ ~refused
       THEN /\ fs' = FsRemove(fs, ObjPath(call[p].name))
            /\ stored' = [stored EXCEPT ![call[p].name] = NotStored]
            /\ Goto(p, "meta")
       ELSE /\ Return(p, MkRet("delete_file", call[p].name, IoErr("deleting"), <<>>, 0,
                               FALSE, <<>>))
            /\ UNCHANGED << fs, stored >>
    /\ UNCHANGED << EngineVars, keyVars, rng, rootExists, compress, swallowed, calls, hist, snap >>

\* delete_file: try_exists(&meta_path)
DeleteMetaCheck(p) ==
    /\ At(p, "delete_file", "meta")
    /\ IF MetaPath(ObjPath(call[p].name)) \in DOMAIN fs
       THEN Goto(p, "meta_remove")
       ELSE Return(p, MkRet("delete_file", call[p].name, Ok, <<>>, 0, FALSE, <<>>))
    /\ UNCHANGED << EngineVars, keyVars, rng, fs, rootExists, compress, swallowed, calls, stored, hist, snap >>

\* delete_file: remove_file(&meta_path).ok(); Ok(()). A failure of the
\* removal is dropped by .ok()
DeleteMetaRemove(p) ==
    /\ At(p, "delete_file", "meta_remove")
    /\ \E refused \in BOOLEAN :
          /\ fs' = IF refused THEN fs ELSE FsRemove(fs, MetaPath(ObjPath(call[p].name)))
          /\ swallowed' = (refused \/ MetaPath(ObjPath(call[p].name)) \notin DOMAIN fs)
    /\ Return(p, MkRet("delete_file", call[p].name, Ok, <<>>, 0, FALSE, <<>>))
    /\ UNCHANGED << EngineVars, keyVars, rng, rootExists, compress, calls, stored, hist, snap >>

\* outside the facade: the object file of name a is copied to name b
CopyObject ==
    \E a \in Names, b \in Names :
        /\ a # b
        /\ calls > 0
        /\ \A p \in Procs : call[p].op = "idle"
        /\ ObjPath(a) \in DOMAIN fs
        /\ fs' = FsPut(fs, ObjPath(b), fs[ObjPath(a)])
        /\ stored' = [stored EXCEPT ![b] = stored[a]]
        /\ ret' = [p \in Procs |-> NoRet]
        /\ calls' = calls - 1
        /\ hist' = HistOther
        /\ UNCHANGED << EngineVars, keyVars, rng, rootExists, compress, swallowed, call, snap >>

\* SecureFileOps::new(km, root).with_compression(c): between two calls the
\* facade is replaced by one over the same root with the other setting; what
\* the calls on the former facade returned is kept no longer
Reopen ==
    /\ \A p \in Procs : call[p].op = "idle"
    /\ compress' = ~compress
    /\ ret' = [p \in Procs |-> NoRet]
    /\ UNCHANGED << EngineVars, keyVars, rng, fs, rootExists, call, calls, stored,
                    hist, snap, swallowed >>

FacadeStep(p) ==
    \/ WriteEncryptedBegin(p) \/ WriteEncryptedCreate(p) \/ WriteEncryptedWrite(p)
    \/ WriteStreamBegin(p) \/ WriteStreamEncrypt(p)
    \/ RecordCreate(p) \/ RecordWrite(p)
    \/ ReadEncrypted(p) \/ ReadEncryptedStream(p)
    \/ ReadEncryptedAuto(p) \/ ReadEncryptedStreamAuto(p)
    \/ ListFiles(p) \/ GetMetadata(p)
    \/ DeleteBegin(p) \/ DeleteRemove(p) \/ DeleteMetaCheck(p) \/ DeleteMetaRemove(p)

\* one caller: the calls of the facade follow one another
NextFacade == FacadeStep(1) \/ CopyObject

SpecFacade == InitFacade /\ [][NextFacade]_vars

\* several callers share the facade
Next == (\E p \in Procs : FacadeStep(p)) \/ CopyObject

Spec == InitShared /\ [][Next]_vars

\* one caller, and sources of write_encrypted_stream that may fail
NextFailing == FacadeStep(1) \/ WriteStreamFail(1)

SpecFailing == InitFacade /\ [][NextFailing]_vars

\* one caller whose calls go through facades of either compression setting
InitReopen ==
    /\ EngineUnused
    /\ KeyUnused
    /\ FacadeFresh
    /\ compress \in BOOLEAN
    /\ rng \in RngSeeds
    /\ calls = MaxReopen

NextReopen == FacadeStep(1) \/ Reopen

SpecReopen == InitReopen /\ [][NextReopen]_vars

(* ========================= src/cli/main.rs ============================ *)
\* Every command loads the configuration, builds the KeyManager from the key
\* file of `init` and a facade of its own over cfg.storage_dir; the commands
\* of a run share the key file and the storage root.

\* cmd_encrypt: SecureFileOps::new(km, cfg.storage_dir).with_compression(compress),
\* then write_encrypted_stream (stream) or write_encrypted of the bytes of
\* the input file, under the output name
CmdEncryptBegin(p) ==
    \E c \in BOOLEAN, stream \in BOOLEAN, name \in Names, data \in FileData :
        /\ compress' = c
        /\ rootExists' = TRUE
        /\ IF stream
           THEN /\ Begin(p, [op |-> "write_encrypted_stream", pc |-> "stream",
                             name |-> name, data |-> data, enc |-> <<>>])
                /\ fs' = FsCreate(fs, ObjPath(name))
                /\ snap' = fs
                /\ hist' = HistOther
                /\ UNCHANGED rng
           ELSE /\ Begin(p, [op |-> "write_encrypted", pc |-> "create", name |-> name,
                             data |-> data, enc |-> SealBuffer(c, data, rng)])
                /\ rng' = rng + 1
                /\ hist' = HistWrite(name)
                /\ UNCHANGED << fs, snap >>
        /\ UNCHANGED << EngineVars, keyVars, swallowed, stored >>

\* cmd_decrypt: SecureFileOps::new(km, cfg.storage_dir), a facade without
\* compression, then read_encrypted_stream (stream) or read_encrypted; out
\* is what the command writes to its output
CmdDecrypt(p) ==
    \E stream \in BOOLEAN, name \in Names :
        /\ calls > 0
        /\ call[p].op = "idle"
        /\ compress' = FALSE
        /\ ret' = [ret EXCEPT ![p] = IF stream THEN ReadEncryptedStreamRes(fs, name)
                                      ELSE ReadEncryptedRes(fs, FALSE, name)]
        /\ calls' = calls - 1
        /\ UNCHANGED << EngineVars, keyVars, rng, fs, rootExists, swallowed, call, stored,
                        hist, snap >>

\* before the first command: the key file exists, the storage is empty
InitCli ==
    /\ EngineUnused
    /\ KeyUnused
    /\ FacadeFresh
    /\ compress = FALSE
    /\ rng \in RngSeeds
    /\ calls = MaxCli

NextCli ==
    \/ CmdEncryptBegin(1)
    \/ WriteEncryptedCreate(1) \/ WriteEncryptedWrite(1)
    \/ WriteStreamEncrypt(1)
    \/ RecordCreate(1) \/ RecordWrite(1)
    \/ CmdDecrypt(1)

SpecCli == InitCli /\ [][NextCli]_vars

(* ======================== src/key_manager.rs ========================== *)
\* key_bytes: [u8; 32]
KEY_LEN == 32

\* the key the k-th OsRng.fill_bytes(&mut key) yields
KeyOf(k) == [i \in 1..KEY_LEN |-> (16 * k + i) % 256]

\* a key file of n bytes found on disk
KeyFileBytes(n) == [i \in 1..n |-> (200 + i) % 256]

\* the key path before the first call: absent, or a file of 0, 31, 32, 33 bytes
KeyFiles ==
    { <<>> } \cup { << KeyFileBytes(n) >> : n \in {0, KEY_LEN - 1, KEY_LEN, KEY_LEN + 1} }

\* (mutant) a buffer left as it is
zeroizeNothing(buf) == buf

\* self.key_bytes.zeroize()
zeroize(buf) == [i \in 1..Len(buf) |-> 0]

\* (mutant) a longer key file is accepted and cut to 32 bytes
KeySizeAtLeast(data) == Len(data) >= KEY_LEN

\* data.len() != 32 is rejected
KeySizeOk(data) == Len(data) = KEY_LEN

InitKey ==
    /\ EngineUnused
    /\ FacadeUnused
    /\ rng = 1
    /\ keyFile \in KeyFiles
    /\ keyInit = keyFile
    /\ unix \in BOOLEAN
    /\ km = [p \in Procs |-> NoKm]
    /\ keyRng = 0
    /\ creations = 0
    /\ clobbered = FALSE

KmSet(p, r) == km' = [km EXCEPT ![p] = r]

\* KeyManager::new: fs::try_exists(path)
KmTryExists(p) ==
    /\ km[p].pc = "none"
    /\ KmSet(p, [km[p] EXCEPT !.pc = IF keyFile # <<>> THEN "read" ELSE "generate"])
    /\ UNCHANGED << streamVars, facadeVars, keyFile, keyInit, unix, keyRng, creations,
                    clobbered >>

\* KeyManager::new: fs::read(path), the length check, copy_from_slice
KmRead(p) ==
    /\ km[p].pc = "read"
    /\ IF keyFile # <<>> /\ KeySizeOk(keyFile[1])
       THEN KmSet(p, [km[p] EXCEPT !.pc = "done", !.ok = TRUE, !.held = "held",
                                   !.key = Take(keyFile[1], KEY_LEN),
                                   !.buf = Take(keyFile[1], KEY_LEN)])
       ELSE KmSet(p, [km[p] EXCEPT !.pc = "done", !.ok = FALSE])
    /\ UNCHANGED << streamVars, facadeVars, keyFile, keyInit, unix, keyRng, creations,
                    clobbered >>

\* KeyManager::new: OsRng.fill_bytes(&mut key)
KmGenerate(p) ==
    /\ km[p].pc = "generate"
    /\ KmSet(p, [km[p] EXCEPT !.pc = "create", !.key = KeyOf(keyRng), !.generated = TRUE])
    /\ keyRng' = keyRng + 1
    /\ UNCHANGED << streamVars, facadeVars, keyFile, keyInit, unix, creations, clobbered >>

\* KeyManager::new: on unix OpenOptions .create_new(true).open, which fails
\* on a file that exists; elsewhere fs::write, whose File::create makes the
\* file or cuts it to length 0
KmCreate(p) ==
    /\ km[p].pc = "create"
    /\ IF unix /\ keyFile # <<>>
       THEN /\ KmSet(p, [km[p] EXCEPT !.pc = "done", !.ok = FALSE, !.key = <<>>])
            /\ UNCHANGED << keyFile, creations, clobbered >>
       ELSE /\ keyFile' = << <<>> >>
            /\ creations' = IF keyFile = <<>> THEN creations + 1 ELSE creations
            /\ clobbered' = (clobbered \/ keyFile # <<>>)
            /\ KmSet(p, [km[p] EXCEPT !.pc = "write", !.creator = (keyFile = <<>>)])
    /\ UNCHANGED << streamVars, facadeVars, keyInit, unix, keyRng >>

\* KeyManager::new: write_all(&key) from offset 0, Ok(Self { key_bytes })
KmWrite(p) ==
    /\ km[p].pc = "write"
    /\ keyFile' = << km[p].key \o Drop(keyFile[1], KEY_LEN) >>
    /\ KmSet(p, [km[p] EXCEPT !.pc = "done", !.ok = TRUE, !.held = "held",
                                !.buf = km[p].key])
    /\ UNCHANGED << streamVars, facadeVars, keyInit, unix, keyRng, creations, clobbered >>

\* impl Drop: the manager leaves its scope; its buffer is zeroized and released
KmDrop(p) ==
    /\ km[p].held = "held"
    /\ KmSet(p, [km[p] EXCEPT !.held = "released", !.buf = zeroize(km[p].buf)])
    /\ UNCHANGED << streamVars, facadeVars, keyFile, keyInit, unix, keyRng, creations,
                    clobbered >>

\* SecureFileOps::new(km, root): the ciphers are derived, then km, taken by
\* value, is dropped as the function returns
KmIntoFacade(p) ==
    /\ km[p].held = "held"
    /\ KmSet(p, [km[p] EXCEPT !.held = "released", !.buf = zeroize(km[p].buf),
                                !.facade = TRUE])
    /\ UNCHANGED << streamVars, facadeVars, keyFile, keyInit, unix, keyRng, creations,
                    clobbered >>

KeyStep(p) ==
    \/ KmTryExists(p) \/ KmRead(p) \/ KmGenerate(p) \/ KmCreate(p) \/ KmWrite(p)
    \/ KmDrop(p) \/ KmIntoFacade(p)

NextKey == \E p \in Procs : KeyStep(p)

SpecKey == InitKey /\ [][NextKey]_vars

(* ====================== properties: streaming ========================= *)
RECURSIVE Concat(_)
Concat(ss) == IF ss = <<>> THEN <<>> ELSE ss[1] \o Concat(Tail(ss))

\* a whole chunk (nonce, length, ciphertext of that length) lies after pos
WholeChunkAt(data, pos) ==
    /\ Len(data) - pos >= NONCE_LEN + LEN_FIELD
    /\ Len(data) - pos - NONCE_LEN - LEN_FIELD
         >= ReadU32BE(SubSeq(data, pos + NONCE_LEN + 1, pos + NONCE_LEN + LEN_FIELD))

ChunkLenAt(data, pos) ==
    ReadU32BE(SubSeq(data, pos + NONCE_LEN + 1, pos + NONCE_LEN + LEN_FIELD))

\* the result of the AEAD on the whole chunk after pos
OpenedAt(data, pos, aad) ==
    AeadDecrypt(SubSeq(data, pos + 1, pos + NONCE_LEN), aad,
                SubSeq(data, pos + NONCE_LEN + LEN_FIELD + 1,
                       pos + NONCE_LEN + LEN_FIELD + ChunkLenAt(data, pos)))

\* the plaintexts of the longest run of whole chunks after pos that pass
\* authentication under aad, in stream order
RECURSIVE AuthChunks(_, _, _)
AuthChunks(data, pos, aad) ==
    IF ~WholeChunkAt(data, pos) THEN <<>>
    ELSE LET o == OpenedAt(data, pos, aad)
         IN  IF o.ok
             THEN << o.pt >>
                  \o AuthChunks(data, pos + NONCE_LEN + LEN_FIELD + ChunkLenAt(data, pos),
                                aad)
             ELSE <<>>

\* the offset just after that run
RECURSIVE AuthEnd(_, _, _)
AuthEnd(data, pos, aad) ==
    IF WholeChunkAt(data, pos) /\ OpenedAt(data, pos, aad).ok
    THEN AuthEnd(data, pos + NONCE_LEN + LEN_FIELD + ChunkLenAt(data, pos), aad)
    ELSE pos

HeaderOk == Len(wire) >= 2 /\ wire[1] = VERSION_V2_STREAM

\* C1: round trip.  Whatever the plaintext, the aad and the sizes of the
\* reads, decrypt_stream with the same aad on the untouched output of
\* encrypt_stream succeeds, writes exactly the plaintext and returns its
\* length, which encrypt_stream returned too.
StreamRoundTrip ==
    (decPc = "done" /\ tamper = "none" /\ decAad = encAad)
        => /\ decRes.ok
           /\ sink = plain
           /\ decTotal = Len(plain)
           /\ encTotal = Len(plain)

\* C1 witness: a plaintext of two chunks and one byte, delivered in more
\* reads than chunks, has made the round trip
StreamRoundTripWitness ==
    /\ decPc = "done" /\ tamper = "none" /\ decAad = encAad /\ encAad # None
    /\ Len(plain) = 2 * CHUNK_SIZE + 1
    /\ Len(chunkAt) > 3
    /\ decRes.ok /\ sink = plain

\* C3 (as claimed): decrypt_stream succeeds only when the end of input
\* falls exactly at a chunk boundary: no byte is left over when it returns
\* success.
EofOnlyAtChunkBoundary ==
    (decPc = "done" /\ decRes.ok) => decTail = 0

\* C4 (as claimed): a stream of one or more chunks sealed with aad a fails
\* at its first chunk under any other aad and under no aad, and opens under a.
AadBindingAnyAad ==
    (decPc = "done" /\ tamper = "none" /\ encAad # None /\ Len(chunkAt) >= 1)
        => IF decAad = encAad
           THEN decRes.ok /\ sink = plain
           ELSE ~decRes.ok /\ decChunks = 0 /\ sink = <<>>

\* C4 (amended): the same for a non-empty aad a; an absent aad is the empty
\* aad.
AadBinding ==
    (decPc = "done" /\ tamper = "none" /\ encAad # None /\ AadBytes(encAad) # <<>>
       /\ Len(chunkAt) >= 1)
        => IF decAad = encAad
           THEN decRes.ok /\ sink = plain
           ELSE /\ ~decRes.ok /\ decRes.msg = "decryption failed"
                /\ decChunks = 0 /\ sink = <<>>

\* C4 witness: a stream of several chunks sealed with aad "a" was refused
\* under no aad
AadBindingWitness ==
    /\ decPc = "done" /\ tamper = "none" /\ encAad = Some(<<97>>) /\ decAad = None
    /\ Len(chunkAt) >= 2
    /\ ~decRes.ok

\* C6 (as claimed): a stream whose first byte is not 2 is refused with a
\* Format error, which is not the error of a tag or aad mismatch, and nothing
\* is written to the sink.
FormatRejection ==
    (decPc = "done" /\ Len(wire) >= 1 /\ wire[1] # VERSION_V2_STREAM)
        => /\ ~decRes.ok
           /\ decRes.variant = "SecureFsError::Format"
           /\ decRes.variant # AdhocErr("decryption failed").variant
           /\ sink = <<>>

\* C7: the sink always holds exactly the plaintexts of the chunks that
\* passed authentication so far, in stream order; when decrypt_stream has
\* returned, it holds all of the chunks before the first one that is not a
\* whole authentic chunk, and a whole chunk that fails authentication makes
\* the result an error.
NoUnauthenticatedPlaintext ==
    LET auth == AuthChunks(wire, 2, decAad)
        stop == AuthEnd(wire, 2, decAad)
    IN  /\ decPc \in {"idle", "version", "flags"} => (sink = <<>> /\ decChunks = 0)
        /\ decPc \in {"loop", "done"} =>
              /\ decChunks <= Len(auth)
              /\ sink = Concat(SubSeq(auth, 1, decChunks))
        /\ decTotal = Len(sink)
        /\ (decPc = "done" /\ HeaderOk)
              => /\ decChunks = Len(auth)
                 /\ (WholeChunkAt(wire, stop) => ~decRes.ok)
        /\ (decPc = "done" /\ ~HeaderOk) => (sink = <<>> /\ ~decRes.ok)

\* C7 witness: chunk 1 of a stream failed authentication after chunk 0 was
\* written, and a later chunk follows it
NoUnauthenticatedPlaintextWitness ==
    /\ decPc = "done" /\ tamper = "flip" /\ decAad = encAad
    /\ ~decRes.ok /\ decRes.msg = "decryption failed"
    /\ decChunks = 1 /\ sink # <<>>
    /\ decPos < Len(wire)

\* C17 (as claimed): for every input, hostile streams included, the
\* ciphertext buffer decrypt_stream allocates from the length field is never
\* longer than one chunk plus the tag, and no chunk encrypt_stream seals is.
BoundedChunkBuffer ==
    /\ decBuf <= CHUNK_SIZE + TAG_LEN
    /\ tamper = "none"
          => \A c \in 1..Len(chunkAt) :
                ChunkEnd(c) - chunkAt[c] - NONCE_LEN - LEN_FIELD <= CHUNK_SIZE + TAG_LEN

\* the nonce of the chunk that begins after pos
NonceAt(data, pos) == SubSeq(data, pos + 1, pos + NONCE_LEN)

\* C18: encrypt_stream draws a nonce from the generator in every loop
\* iteration: the generator has advanced once per chunk sealed, chunk c
\* carries the draw made in iteration c, and no two chunks of the stream
\* carry the same nonce.
NonceFreshness ==
    tamper = "none"
    => /\ \E seed \in StreamSeeds :
             /\ rng = seed + Len(chunkAt)
             /\ \A c \in 1..Len(chunkAt) :
                   NonceAt(wire, chunkAt[c]) = NonceOf(seed + c - 1)
       /\ \A c \in 1..Len(chunkAt) : \A d \in 1..Len(chunkAt) :
             c # d => NonceAt(wire, chunkAt[c]) # NonceAt(wire, chunkAt[d])

\* C18 witness: a stream of three chunks was written
NonceFreshnessWitness ==
    /\ encPc = "done" /\ tamper = "none" /\ Len(chunkAt) = 3
    /\ NonceAt(wire, chunkAt[1]) # NonceAt(wire, chunkAt[3])

\* bytes of chunk c after its nonce and its length field
SealedLen(c) == ChunkEnd(c) - chunkAt[c] - NONCE_LEN - LEN_FIELD

\* plaintext bytes carried by the chunks before chunk c
RECURSIVE PlainBefore(_)
PlainBefore(c) == IF c <= 1 THEN 0 ELSE PlainBefore(c - 1) + SealedLen(c - 1) - TAG_LEN

\* C19: the bytes encrypt_stream has written are the version byte 2, the
\* flags byte, and one chunk nonce || len || sealed per non-empty read of n
\* bytes, 1 <= n <= CHUNK_SIZE, where sealed is the read sealed under the
\* nonce and the aad, len = n + 16 as decrypt_stream's read_u32 reads it, and
\* nothing else: an empty source gives the 2-byte header and the count 0.
V2Layout ==
    (encPc = "done" /\ tamper = "none")
    => /\ Len(wire) >= 2
       /\ wire[1] = 2
       /\ wire[2] = (IF encFlags THEN 1 ELSE 0)
       /\ (chunkAt # <<>> => chunkAt[1] = 2)
       /\ \A c \in 1..Len(chunkAt) :
             LET n == SealedLen(c) - TAG_LEN IN
             /\ 1 <= n /\ n <= CHUNK_SIZE
             /\ ChunkLenAt(wire, chunkAt[c]) = n + TAG_LEN
             /\ SubSeq(wire, chunkAt[c] + NONCE_LEN + LEN_FIELD + 1, ChunkEnd(c))
                  = AeadEncrypt(NonceAt(wire, chunkAt[c]), encAad,
                                SubSeq(plain, PlainBefore(c) + 1, PlainBefore(c) + n))
       /\ PlainBefore(Len(chunkAt) + 1) = Len(plain)
       /\ encTotal = Len(plain)
       /\ (plain = <<>> => (Len(wire) = 2 /\ encTotal = 0))
       /\ (chunkAt = <<>> => Len(wire) = 2)

\* C19 witness: a source of two chunks and one byte was written in three
\* reads, the last of one byte
V2LayoutWitness ==
    /\ encPc = "done" /\ tamper = "none" /\ Len(plain) = 2 * CHUNK_SIZE + 1
    /\ Len(chunkAt) = 3
    /\ SealedLen(3) = 1 + TAG_LEN
    /\ Len(wire) = 2 + 3 * (NONCE_LEN + LEN_FIELD + TAG_LEN) + Len(plain)

\* the plaintext encrypt_stream sealed in chunk c
PlainOfChunk(c) ==
    SubSeq(plain, PlainBefore(c) + 1, PlainBefore(c) + SealedLen(c) - TAG_LEN)

\* C20: whole-chunk truncation and reordering are accepted.  When the stream
\* is the header followed by a proper prefix of the chunks encrypt_stream
\* wrote, or by a permutation of them, decrypt_stream with the aad of
\* encrypt_stream succeeds and returns the plaintexts of the chunks present,
\* concatenated in the order they have in the stream, and their length.
WholeChunkTamperAccepted ==
    (decPc = "done" /\ tamper \in {"prefix", "reorder"})
        => /\ decRes.ok
           /\ sink = Concat([i \in 1..Len(present) |-> PlainOfChunk(present[i])])
           /\ decTotal = Len(sink)
           /\ decChunks = Len(present)

\* C20 witness: three chunks were written, the last was moved to the front,
\* and decrypt_stream returned a plaintext that is not the one sealed
WholeChunkTamperAcceptedWitness ==
    /\ decPc = "done" /\ tamper = "reorder" /\ present = <<3, 1, 2>>
    /\ encAad # None
    /\ decRes.ok /\ sink # plain /\ Len(sink) = Len(plain)

\* C20, second case reached: two chunks were written, the second was cut
\* off, and decrypt_stream returned the first chunk's plaintext alone
PrefixAcceptedReached ==
    /\ decPc = "done" /\ tamper = "prefix" /\ present = <<1>> /\ Len(chunkAt) = 2
    /\ decRes.ok /\ sink = PlainOfChunk(1) /\ Len(sink) < Len(plain)

\* C23: to_byte sets bit 0 exactly when compressed is true and no other bit;
\* from_byte(to_byte(f)) = f; from_byte looks at bit 0 alone; encrypt_stream
\* writes to_byte(flags) as the second byte, and decrypt_stream does not
\* reject a header whose flags byte has reserved bits set: it decrypts the
\* stream and returns from_byte of that byte.
FormatFlagsEncoding ==
    /\ \A f \in BOOLEAN :
          /\ to_byte(f) % 2 = (IF f THEN 1 ELSE 0)
          /\ to_byte(f) \div 2 = 0
          /\ from_byte(to_byte(f)) = f
    /\ \A b \in 0..255 : from_byte(b) = from_byte(b % 2)
    /\ (encPc # "header" /\ tamper = "none") => wire[2] = to_byte(encFlags)
    /\ (decPc = "done" /\ tamper \in {"none", "flags"} /\ decAad = encAad)
         => /\ decRes.ok
            /\ sink = plain
            /\ decFlags = from_byte(wire[2])
            /\ decFlags = encFlags <=> (wire[2] % 2 = to_byte(encFlags))

\* C23 witness: a stream written with compressed = true, whose flags byte
\* was replaced by 254, was decrypted and reported as not compressed
FormatFlagsEncodingWitness ==
    /\ decPc = "done" /\ tamper = "flags" /\ wire[2] = 254
    /\ encFlags /\ plain # <<>>
    /\ decRes.ok /\ sink = plain /\ ~decFlags

(* ======================= properties: facade =========================== *)
\* the one caller of SpecFacade is between calls
Quiet == \A p \in Procs : call[p].op = "idle"

\* C2 (as claimed): whatever was written under a name by write_encrypted
\* (V1) or write_encrypted_stream (V2), read_encrypted_auto of that name
\* takes the branch of that format and returns exactly the plaintext written.
AutoDetection ==
    \A p \in Procs :
        (Quiet /\ ret[p].op = "read_encrypted_auto"
           /\ stored[ret[p].name].kind \in {"v1", "v2"}
           /\ stored[ret[p].name].origin = ret[p].name)
        => /\ (fs[ObjPath(ret[p].name)][1] = VERSION_V2_STREAM)
                 <=> (stored[ret[p].name].kind = "v2")
           /\ ret[p].res.ok
           /\ ret[p].out = stored[ret[p].name].data

\* C5 (as claimed): a V2 object written under name A and copied to another
\* name B cannot be read under B by any of the three streaming-aware readers.
RenameDetectedAlways ==
    \A p \in Procs :
        (Quiet
           /\ ret[p].op \in {"read_encrypted_stream", "read_encrypted_auto",
                             "read_encrypted_stream_auto"}
           /\ stored[ret[p].name].kind = "v2"
           /\ stored[ret[p].name].origin # ret[p].name)
        => ~ret[p].res.ok

\* C5 (amended): the same for an object of a non-empty plaintext, which has
\* at least one chunk; no plaintext reaches the caller.
RenameDetected ==
    \A p \in Procs :
        (Quiet
           /\ ret[p].op \in {"read_encrypted_stream", "read_encrypted_auto",
                             "read_encrypted_stream_auto"}
           /\ stored[ret[p].name].kind = "v2"
           /\ stored[ret[p].name].origin # ret[p].name
           /\ stored[ret[p].name].data # <<>>)
        => (~ret[p].res.ok /\ ret[p].out = <<>>)

\* C5 witness: read_encrypted_stream_auto has refused a copied V2 object of
\* a non-empty plaintext
RenameDetectedWitness ==
    /\ Quiet /\ ret[1].op = "read_encrypted_stream_auto"
    /\ stored[ret[1].name].kind = "v2"
    /\ stored[ret[1].name].origin # ret[1].name
    /\ stored[ret[1].name].data # <<>>
    /\ ret[1].res.msg = "decryption failed"

\* C8: when every change made so far through the facade was a write_encrypted
\* to one name, read_encrypted of that name returns exactly the bytes of the
\* most recent of these writes, with compression off or on.
ReadReturnsLastWrite ==
    \A p \in Procs :
        (Quiet /\ ret[p].op = "read_encrypted" /\ hist.st = "one"
           /\ hist.name = ret[p].name)
        => (ret[p].res.ok /\ ret[p].out = stored[hist.name].data)

\* C8 witness: with compression on, a name was written twice and then read
ReadReturnsLastWriteWitness ==
    /\ Quiet /\ ret[1].op = "read_encrypted" /\ hist.st = "one"
    /\ hist.name = ret[1].name
    /\ stored[hist.name].gen = 2
    /\ compress
    /\ ret[1].res.ok

\* C9 (as claimed): when all the calls made so far are write_encrypted calls
\* under pairwise distinct names, by any callers and in any interleaving,
\* and all have returned, list_files reports one object per name and
\* read_encrypted of each name returns the content written for it.
ConcurrentDistinctNames ==
    (Quiet /\ hist.distinct /\ hist.written # {})
        => /\ Len(ListFilesRes(fs, rootExists).files) = Cardinality(hist.written)
           /\ \A n \in hist.written :
                 /\ ReadEncryptedRes(fs, compress, n).res.ok
                 /\ ReadEncryptedRes(fs, compress, n).out = stored[n].data

\* C10 (as claimed): delete_file of a name that had no object file when the
\* call began returns success and leaves every file of the storage root,
\* objects and sidecars, as it was.
DeleteAbsentIsNoOp ==
    \A p \in Procs :
        (Quiet /\ ret[p].op = "delete_file" /\ ObjPath(ret[p].name) \notin DOMAIN snap)
        => (ret[p].res.ok /\ fs = snap)

IsSidecar(q) ==
    Len(q) > Len(MetaJson) /\ Drop(q, Len(q) - Len(MetaJson) - 1) = <<DOT>> \o MetaJson

\* the names list_files is to report: the direct files of the root that are
\* not metadata sidecars
Listable(files) == { file_name(q) : q \in { e \in DirEntries(files) : ~IsSidecar(e) } }

\* C12 (as claimed): list_files returns exactly one entry for each direct
\* file of the storage root that is not a metadata sidecar, in strictly
\* ascending order of name, each with has_metadata true exactly when its
\* sidecar is present; for a root that does not exist the list is empty.
Listing ==
    \A p \in Procs :
        (Quiet /\ ret[p].op = "list_files")
        => LET rows == ret[p].files IN
           /\ ret[p].res.ok
           /\ { rows[i].name : i \in 1..Len(rows) } = Listable(fs)
           /\ Len(rows) = Cardinality(Listable(fs))
           /\ \A i \in 1..Len(rows) : \A j \in 1..Len(rows) :
                 i < j => LexLess(rows[i].name, rows[j].name)
           /\ \A i \in 1..Len(rows) :
                 rows[i].has_metadata
                     <=> (MetaPath(join(Root, rows[i].name)) \in DOMAIN fs)
           /\ (~rootExists => rows = <<>>)

\* C13 (as claimed): immediately after a successful write_encrypted or
\* write_encrypted_stream of a name, get_metadata of that name succeeds with
\* filename = name and size = the number of plaintext bytes written (the
\* value a streaming write returned); get_metadata of a name whose sidecar is
\* missing returns an error.
MetadataAfterWrite ==
    \A p \in Procs :
        /\ (Quiet /\ ret[p].op \in {"write_encrypted", "write_encrypted_stream"}
              /\ ret[p].res.ok)
           => LET m == GetMetadataRes(fs, ret[p].name) IN
              /\ m.res.ok
              /\ m.out = ret[p].name
              /\ m.count = Len(stored[ret[p].name].data)
              /\ m.count = ret[p].count
        /\ (Quiet /\ ret[p].op = "get_metadata"
              /\ MetaPath(ObjPath(ret[p].name)) \notin DOMAIN fs)
           => ~ret[p].res.ok

SwallowedReached ==
    /\ Quiet /\ ret[1].op = "delete_file" /\ ret[1].res.ok /\ swallowed
    /\ ObjPath(ret[1].name) \in DOMAIN snap
    /\ ObjPath(ret[1].name) \notin DOMAIN fs

\* C24 (as claimed): between calls, for every object stored under the name
\* it was written to, get_metadata of the name returns filename = name and
\* size = the length of the plaintext of that object, whatever was written
\* or deleted under the other names.
SidecarsPerObject ==
    Quiet =>
        \A n \in Names :
            (stored[n].kind \in {"v1", "v2"} /\ stored[n].origin = n)
            => /\ GetMetadataRes(fs, n).res.ok
               /\ GetMetadataRes(fs, n).out = n
               /\ GetMetadataRes(fs, n).count = Len(stored[n].data)

\* C25 (as claimed): when write_encrypted_stream of a name under which an
\* object was stored has failed, the object file and its sidecar are as they
\* were when the call began, and the auto-detecting read of the name returns
\* what it returned before.
AtomicStreamOverwrite ==
    \A p \in Procs :
        (Quiet /\ ret[p].op = "write_encrypted_stream" /\ ~ret[p].res.ok
           /\ ObjPath(ret[p].name) \in DOMAIN snap)
        => LET obj == ObjPath(ret[p].name) IN
           /\ obj \in DOMAIN fs /\ fs[obj] = snap[obj]
           /\ MetaPath(obj) \in DOMAIN snap
                => (MetaPath(obj) \in DOMAIN fs /\ fs[MetaPath(obj)] = snap[MetaPath(obj)])
           /\ ReadEncryptedAutoRes(fs, compress, ret[p].name).out
                = ReadEncryptedAutoRes(snap, compress, ret[p].name).out
           /\ ReadEncryptedAutoRes(fs, compress, ret[p].name).res
                = ReadEncryptedAutoRes(snap, compress, ret[p].name).res

\* C26 (as claimed): when two write_encrypted calls to one name, run by two
\* callers in any interleaving, have both returned success, read_encrypted
\* of the name succeeds and the size recorded in the sidecar is the length
\* of the plaintext it returns.
SameNameWriters ==
    (Quiet /\ ret[1].op = "write_encrypted" /\ ret[2].op = "write_encrypted"
       /\ ret[1].res.ok /\ ret[2].res.ok /\ ret[1].name = ret[2].name)
    => LET r == ReadEncryptedRes(fs, compress, ret[1].name)
           m == GetMetadataRes(fs, ret[1].name)
       IN  /\ r.res.ok
           /\ m.res.ok
           /\ m.count = Len(r.out)

\* C27 (as claimed): after the encrypt command in buffer mode, with or
\* without the compress option, has stored an input file under a name, the
\* decrypt command in buffer mode on that name succeeds and outputs exactly
\* the bytes of the input file.
CliRoundTrip ==
    (Quiet /\ ret[1].op = "read_encrypted" /\ stored[ret[1].name].kind = "v1")
        => /\ ret[1].res.ok
           /\ ret[1].out = stored[ret[1].name].data

\* C28 (as claimed): an object written by write_encrypted under one name and
\* copied to another name is decrypted by read_encrypted and by
\* read_encrypted_auto of the other name, on the same facade, and both
\* return the plaintext written under the first name.
BufferNotNameBound ==
    \A p \in Procs :
        (Quiet /\ ret[p].op \in {"read_encrypted", "read_encrypted_auto"}
           /\ stored[ret[p].name].kind = "v1"
           /\ stored[ret[p].name].origin # ret[p].name)
        => /\ ret[p].res.ok
           /\ ret[p].out = stored[ret[p].name].data

\* a path that names a direct child of the storage root
InRoot(q) ==
    /\ Len(q) > Len(Root) + 1
    /\ Take(q, Len(Root) + 1) = Root \o <<SLASH>>
    /\ LastIndexOf(q, SLASH) = Len(Root) + 1

\* C29 (as claimed): whatever the logical name, the object path and the
\* sidecar path that a call in progress works on, or that a returned call
\* worked on, are direct children of the storage root.
Containment ==
    \A p \in Procs :
        /\ call[p].op # "idle"
             => /\ InRoot(ObjPath(call[p].name))
                /\ InRoot(MetaPath(ObjPath(call[p].name)))
        /\ ret[p].op \in {"write_encrypted", "write_encrypted_stream", "delete_file",
                          "read_encrypted", "get_metadata"}
             => /\ InRoot(ObjPath(ret[p].name))
                /\ InRoot(MetaPath(ObjPath(ret[p].name)))

(* ===================== properties: key manager ======================== *)
\* C14: KeyManager::new on a path where a file exists succeeds if and only if
\* the file holds exactly 32 bytes, and then the manager holds exactly those
\* bytes; for any other length no manager is produced; the key file is left
\* as it was.
KeyValidation ==
    keyInit # <<>>
    => /\ keyFile = keyInit
       /\ \A p \in Procs :
             km[p].pc = "done"
             => /\ km[p].ok <=> (Len(keyInit[1]) = KEY_LEN)
                /\ km[p].ok => km[p].key = keyInit[1]
                /\ ~km[p].ok => (km[p].held = "none" /\ km[p].key = <<>>)

\* C14 witness: a manager was constructed from a key file of 32 bytes
KeyValidationWitness ==
    /\ keyInit # <<>> /\ km[1].pc = "done" /\ km[1].ok
    /\ km[1].key = KeyFileBytes(KEY_LEN)

\* C15 (as claimed): when KeyManager::new calls race on an absent key path, at
\* most one of them creates the key file, the file once created is never
\* opened for writing again, a caller that generated a key but did not create
\* the file fails, and when all calls are over every manager constructed
\* holds the 32 bytes stored in the file.
ExclusiveKeyCreation ==
    keyInit = <<>>
    => /\ creations <= 1
       /\ ~clobbered
       /\ \A p \in Procs :
             (km[p].pc = "done" /\ km[p].generated /\ km[p].ok) => km[p].creator
       /\ (\A p \in Procs : km[p].pc = "done")
             => \A p \in Procs : km[p].ok => (keyFile # <<>> /\ km[p].key = keyFile[1])

\* C16: the key buffer of a KeyManager that has been dropped was overwritten
\* with zeros, and a facade built by SecureFileOps::new has dropped the
\* manager it was given.
Zeroization ==
    \A p \in Procs :
        /\ km[p].held = "released" => km[p].buf = [i \in 1..KEY_LEN |-> 0]
        /\ km[p].facade => km[p].held = "released"

\* C16 witness: a manager that held a non-zero key was consumed by
\* SecureFileOps::new
ZeroizationWitness ==
    /\ km[1].facade /\ km[1].held = "released"
    /\ km[1].key = KeyOf(0)
    /\ km[1].buf # km[1].key

====
